---------------------------- MODULE Spec2Model ----------------------------
(***************************************************************************)
(* Dynamic / partial SHA-256 of o1js-dynamic-sha256: the block splitter,   *)
(* the compression pipeline, the oblivious word selector, the zero-padding *)
(* verifier and the partial-state adapter, as one call-at-a-time state     *)
(* machine.                                                                *)
(*                                                                         *)
(* Representation.  A Field element used as an index is an integer, a      *)
(* value near the field modulus p being written as its negative            *)
(* representative (p - k is -k), so that Field.add is integer addition.    *)
(* A Field element holding a word is a record [hi, lo] of two 16-bit limbs *)
(* (value = hi * 65536 + lo): 32-bit values do not fit the model checker's *)
(* integers, and the limbs keep every byte of the word.                    *)
(***************************************************************************)
EXTENDS Integers, Sequences, FiniteSets, TLC

(***************************************************************************)
(* Bounds of the model.                                                    *)
(***************************************************************************)
MaxMsgLen == 64    \* longest message, in bytes
MaxBlocks == 3     \* largest capacity, in 64-byte blocks
MaxVariant == 1    \* message contents: variants 0..MaxVariant
MaxSeqLen == 3     \* longest word sequence handed to wordAtIndex directly
MaxPadBlocks == 1  \* blocks handed to assertZeroPadding directly

(***************************************************************************)
(* Program constants.                                                      *)
(***************************************************************************)
BlockBytes == 64   \* bytes of a 512-bit message block
BlockWords == 16   \* words of a message block
StateWords == 8    \* words of a hash state
WordBytes == 4     \* bytes of a word
ByteRadix == 256    \* values of a byte
Limb == ByteRadix * ByteRadix   \* 2^16: a word is hi * Limb + lo

Min(a, b) == IF a < b THEN a ELSE b
Max(a, b) == IF a > b THEN a ELSE b

Reverse(s) == [k \in 1..Len(s) |-> s[Len(s) + 1 - k]]

RECURSIVE Flat(_)
\* Array.prototype.flat() of a 2D array
Flat(rows) == IF rows = <<>> THEN <<>> ELSE Head(rows) \o Flat(Tail(rows))

RECURSIVE Pow2(_)
Pow2(n) == IF n = 0 THEN 1 ELSE 2 * Pow2(n - 1)

(***************************************************************************)
(* Field elements that hold words.                                         *)
(***************************************************************************)
FNorm(h, l) == [hi |-> h + (l \div Limb), lo |-> l % Limb]
FZero == [hi |-> 0, lo |-> 0]
\* Field.add
FAdd(a, b) == FNorm(a.hi + b.hi, a.lo + b.lo)
\* mutant of FMulBool: the indicator is ignored, every word is added
FMulBoolIgnored(a, k) == a
\* Field.mul by a 0/1 indicator
FMulBool(a, k) == [hi |-> a.hi * k, lo |-> a.lo * k]
\* Field.mul of a byte by 1n << BigInt(bits), bits in {0, 8, 16, 24}
FShiftByte(b, bits) ==
    IF bits < 16 THEN FNorm(0, b * Pow2(bits))
    ELSE [hi |-> b * Pow2(bits - 16), lo |-> 0]
\* (w >> BigInt(bits)) & 0xffn
FByteAt(w, bits) ==
    IF bits = 0 THEN w.lo % ByteRadix
    ELSE IF bits = 8 THEN w.lo \div ByteRadix
    ELSE IF bits = 16 THEN w.hi % ByteRadix
    ELSE (w.hi \div ByteRadix) % ByteRadix
\* the value is below 2^32
IsUInt32(w) == w.hi \in 0..(Limb - 1) /\ w.lo \in 0..(Limb - 1)


(***************************************************************************)
(* A call either returns a value or throws.                                *)
(***************************************************************************)
Ok(v) == [ok |-> TRUE, val |-> v, err |-> "none"]
Fail(e) == [ok |-> FALSE, val |-> <<>>, err |-> e]

(***************************************************************************)
(* utils.ts: word/byte conversions.                                        *)
(***************************************************************************)
RECURSIVE bytesToWordFrom(_, _, _)
\* the reduce of bytesToWord from 0-based position idx on
bytesToWordFrom(wordBytes, reverseEndianness, idx) ==
    IF idx >= Len(wordBytes) THEN FZero
    ELSE LET shiftBits == IF reverseEndianness THEN 3 - idx ELSE idx
         IN  FAdd(FShiftByte(wordBytes[idx + 1], 8 * shiftBits),
                  bytesToWordFrom(wordBytes, reverseEndianness, idx + 1))

bytesToWord(wordBytes, reverseEndianness) ==
    bytesToWordFrom(wordBytes, reverseEndianness, 0)

\* chunk(array, size): throws unless the length is a multiple of size
chunk(array, size) ==
    IF Len(array) % size # 0 THEN Fail("length")
    ELSE Ok([k \in 1..(Len(array) \div size) |->
                SubSeq(array, size * (k - 1) + 1, size * k)])

\* wordToBytes(word, 4, reverseEndianness): the witnessed bytes, then the
\* check that they recompose to the word
wordToBytes(word, bytesPerWord, reverseEndianness) ==
    LET bytes == [k \in 1..bytesPerWord |->
                    FByteAt(word, 8 * (IF reverseEndianness
                                        THEN 3 - (k - 1) ELSE k - 1))]
    IN  IF bytesToWord(bytes, reverseEndianness) = word
        THEN Ok(bytes) ELSE Fail("decomposition")

\* mutant of bytesToWords: the bytes of a word are taken little-endian
bytesToWordsLittleEndian(bytes, bytesPerWord) ==
    LET c == chunk(bytes, bytesPerWord)
    IN  IF ~c.ok THEN c
        ELSE Ok([k \in 1..Len(c.val) |-> bytesToWord(c.val[k], FALSE)])

\* bytesToWords(bytes, bytesPerWord)
bytesToWords(bytes, bytesPerWord) ==
    LET c == chunk(bytes, bytesPerWord)
    IN  IF ~c.ok THEN c
        ELSE Ok([k \in 1..Len(c.val) |-> bytesToWord(c.val[k], TRUE)])

\* mutant of generateMessageBlocks: the 4-byte slice is not reversed
generateMessageBlocksNoReverse(paddedMessage) ==
    LET n == Len(paddedMessage)
        nChunks == (n + WordBytes - 1) \div WordBytes
        chunks == [k \in 1..nChunks |->
                     bytesToWord(SubSeq(paddedMessage,
                                        WordBytes * (k - 1) + 1,
                                        Min(WordBytes * k, n)),
                                 FALSE)]
    IN  chunk(chunks, BlockWords)

\* generateMessageBlocks / splitIntoMessageBlocks: one word per 4-byte
\* slice (the last slice may be shorter), then chunks of 16 words
generateMessageBlocks(paddedMessage) ==
    LET n == Len(paddedMessage)
        nChunks == (n + WordBytes - 1) \div WordBytes
        chunks == [k \in 1..nChunks |->
                     bytesToWord(Reverse(SubSeq(paddedMessage,
                                                WordBytes * (k - 1) + 1,
                                                Min(WordBytes * k, n))),
                                 FALSE)]
    IN  chunk(chunks, BlockWords)

\* mutant of bytesAfterSplit: reverse() acts on the bytes of the buffer
bytesAfterSplitInPlace(paddedMessage) ==
    [k \in 1..Len(paddedMessage) |->
        LET first == WordBytes * ((k - 1) \div WordBytes) + 1
            last == Min(first + WordBytes - 1, Len(paddedMessage))
        IN  paddedMessage[first + last - k]]

\* paddedMessage.bytes once generateMessageBlocks has run: slice(i, i + 4)
\* copies the four bytes and reverse() reorders the copy
bytesAfterSplit(paddedMessage) == paddedMessage

(***************************************************************************)
(* utils.ts: the oblivious selector and the zero-padding verifier.         *)
(***************************************************************************)
RECURSIVE wordAtIndexLoopOffByOne(_, _, _, _)
\* mutant of wordAtIndexLoop: the indicator compares index with i + 1
wordAtIndexLoopOffByOne(wordsArray, index, lo, hi) ==
    IF hi <= lo THEN [totalValues |-> FZero, totalIndex |-> 0]
    ELSE IF hi = lo + 1
    THEN LET isIndex == IF index = lo + 1 THEN 1 ELSE 0
             isValue == FMulBool(wordsArray[lo + 1], isIndex)
         IN  [totalValues |-> isValue, totalIndex |-> isIndex]
    ELSE LET mid == (lo + hi) \div 2
             a == wordAtIndexLoopOffByOne(wordsArray, index, lo, mid)
             b == wordAtIndexLoopOffByOne(wordsArray, index, mid, hi)
         IN  [totalValues |-> FAdd(a.totalValues, b.totalValues),
              totalIndex |-> a.totalIndex + b.totalIndex]

RECURSIVE wordAtIndexLoop(_, _, _, _)
\* the loop of wordAtIndex over the 0-based positions lo .. hi - 1: the
\* sums totalValues and totalIndex of isValue and isIndex (the sums are
\* taken by halves, which keeps the evaluation shallow)
wordAtIndexLoop(wordsArray, index, lo, hi) ==
    IF hi <= lo THEN [totalValues |-> FZero, totalIndex |-> 0]
    ELSE IF hi = lo + 1
    THEN LET isIndex == IF index = lo THEN 1 ELSE 0
             isValue == FMulBool(wordsArray[lo + 1], isIndex)
         IN  [totalValues |-> isValue, totalIndex |-> isIndex]
    ELSE LET mid == (lo + hi) \div 2
             a == wordAtIndexLoop(wordsArray, index, lo, mid)
             b == wordAtIndexLoop(wordsArray, index, mid, hi)
         IN  [totalValues |-> FAdd(a.totalValues, b.totalValues),
              totalIndex |-> a.totalIndex + b.totalIndex]

\* mutant of wordAtIndex: the assertion on totalIndex is missing
wordAtIndexUnchecked(wordsArray, index) ==
    LET r == wordAtIndexLoop(wordsArray, index, 0, Len(wordsArray))
    IN  [ok |-> TRUE, val |-> r.totalValues, err |-> "none",
         totalIndex |-> r.totalIndex]

wordAtIndex(wordsArray, index) ==
    LET r == wordAtIndexLoop(wordsArray, index, 0, Len(wordsArray))
    IN  IF r.totalIndex # 1
        THEN [ok |-> FALSE, val |-> FZero, err |-> "index",
              totalIndex |-> r.totalIndex]
        ELSE [ok |-> TRUE, val |-> r.totalValues, err |-> "none",
              totalIndex |-> r.totalIndex]

\* mutant of assertZeroPadding: the padding start itself is constrained
assertZeroPaddingInclusive(messageBlocks, digestIndex) ==
    LET paddingStartIndex == (digestIndex + 8) * 2
        messageWords == Flat(messageBlocks)
        bad == {i \in 0..(Len(messageWords) - 1) :
                  LET isPadded == IF i >= paddingStartIndex THEN 1 ELSE 0
                  IN  FMulBool(messageWords[i + 1], isPadded) # FZero}
    IN  IF bad = {} THEN [ok |-> TRUE, err |-> "none", at |-> -1]
        ELSE [ok |-> FALSE, err |-> "padding",
              at |-> CHOOSE i \in bad : \A j \in bad : i <= j]

\* mutant of assertZeroPadding: the error names the last offending position
assertZeroPaddingLast(messageBlocks, digestIndex) ==
    LET paddingStartIndex == (digestIndex + 8) * 2
        messageWords == Flat(messageBlocks)
        bad == {i \in 0..(Len(messageWords) - 1) :
                  LET isPadded == IF i > paddingStartIndex THEN 1 ELSE 0
                  IN  FMulBool(messageWords[i + 1], isPadded) # FZero}
    IN  IF bad = {} THEN [ok |-> TRUE, err |-> "none", at |-> -1]
        ELSE [ok |-> FALSE, err |-> "padding",
              at |-> CHOOSE i \in bad : \A j \in bad : i >= j]

\* assertZeroPadding: the first flat position past the padding start whose
\* word is not zero makes the call throw "Padding error at index i"
assertZeroPadding(messageBlocks, digestIndex) ==
    LET paddingStartIndex == (digestIndex + 8) * 2
        messageWords == Flat(messageBlocks)
        bad == {i \in 0..(Len(messageWords) - 1) :
                  LET isPadded == IF i > paddingStartIndex THEN 1 ELSE 0
                  IN  FMulBool(messageWords[i + 1], isPadded) # FZero}
    IN  IF bad = {} THEN [ok |-> TRUE, err |-> "none", at |-> -1]
        ELSE [ok |-> FALSE, err |-> "padding",
              at |-> CHOOSE i \in bad : \A j \in bad : i <= j]

(***************************************************************************)
(* The trusted primitive Gadgets.SHA256: the initial state and one         *)
(* compression step (message schedule, then compression).  The library's   *)
(* round function is outside the repository; the model uses a pure,        *)
(* deterministic stand-in with the same signature, which mixes every word  *)
(* of the block and of the state into the next state, modulo 2^32.         *)
(***************************************************************************)
W(h, l) == [hi |-> h, lo |-> l]
initialState ==
    << W(27145, 58983), W(47975, 44677), W(15470, 62322), W(42319, 62778),
       W(20750, 21119), W(39685, 26764), W(8067, 55723), W(23520, 52505) >>

Add32(a, b) == LET s == FAdd(a, b) IN [hi |-> s.hi % Limb, lo |-> s.lo]
Rot16(a) == [hi |-> a.lo, lo |-> a.hi]

compress(H, block) ==
    [k \in 1..StateWords |->
        Add32(Add32(Add32(H[k], Rot16(H[(k % StateWords) + 1])),
                    Add32(block[2 * k - 1], Rot16(block[2 * k]))),
              W(0, k))]

RECURSIVE foldCompress(_, _)
\* the state after compressing the blocks in order, starting from H
foldCompress(H, blocks) ==
    IF blocks = <<>> THEN H
    ELSE foldCompress(compress(H, Head(blocks)), Tail(blocks))

(***************************************************************************)
(* The reference: the standard SHA-256 of a message is the fold of the     *)
(* compression step, from the initial state, over the big-endian words of  *)
(* the standard-padded message.                                            *)
(***************************************************************************)
Zeros(n) == [k \in 1..n |-> 0]

\* int64toBytes(num) for 0 <= num < 2^16: eight bytes, big-endian
int64toBytes(num) ==
    << 0, 0, 0, 0, 0, 0, num \div ByteRadix, num % ByteRadix >>

\* length of the standard padding of a message of n bytes (getPaddedLength)
getPaddedLength(n) == ((n + 8) \div BlockBytes + 1) * BlockBytes

\* message ++ 0x80 ++ zeros ++ 64-bit bit length
standardPadding(message) ==
    LET n == Len(message)
    IN  message \o <<128>> \o Zeros(getPaddedLength(n) - n - 9)
                \o int64toBytes(8 * n)

\* the big-endian words of a byte string whose length is a multiple of 64,
\* in blocks of 16
standardBlocks(bytes) ==
    [b \in 1..(Len(bytes) \div BlockBytes) |->
        [j \in 1..BlockWords |->
            LET o == BlockBytes * (b - 1) + WordBytes * (j - 1)
            IN  W(bytes[o + 1] * ByteRadix + bytes[o + 2],
                  bytes[o + 3] * ByteRadix + bytes[o + 4])]]

\* the bytes of a hash state, each word big-endian
stateToBytes(H) ==
    Flat([k \in 1..Len(H) |->
            << H[k].hi \div ByteRadix, H[k].hi % ByteRadix,
               H[k].lo \div ByteRadix, H[k].lo % ByteRadix >>])

\* Gadgets.SHA256.hash(message), as the 8 words of the final state
standardHash(message) ==
    foldCompress(initialState, standardBlocks(standardPadding(message)))

(***************************************************************************)
(* helpers.ts: input generation.                                           *)
(***************************************************************************)
\* sha256Pad(message, maxShaBytes) of @zk-email/helpers: the standard
\* padding, then 8 zero bytes at a time up to maxShaBytes; throws unless
\* the result has exactly maxShaBytes bytes
sha256Pad(message, maxShaBytes) ==
    LET res == standardPadding(message)
        messageLen == Len(res)
        fill == IF maxShaBytes > messageLen
                THEN 8 * ((maxShaBytes - messageLen + 7) \div 8) ELSE 0
    IN  IF messageLen + fill # maxShaBytes THEN Fail("capacity")
        ELSE Ok([padded |-> res \o Zeros(fill), len |-> messageLen])

\* mutant of dynamicSHA256Pad: the index is computed from the length of the
\* filled buffer instead of the length of the standard padding
dynamicSHA256PadByCapacity(message, maxPaddedBytes) ==
    LET r == sha256Pad(message, maxPaddedBytes)
    IN  IF ~r.ok THEN r
        ELSE Ok([paddedPreimage |-> r.val.padded,
                 digestIndex |-> (Len(r.val.padded) - 64) \div 8])

\* dynamicSHA256Pad(message, maxPaddedBytes): [buffer, digest index]
dynamicSHA256Pad(message, maxPaddedBytes) ==
    LET r == sha256Pad(message, maxPaddedBytes)
    IN  IF ~r.ok THEN r
        ELSE Ok([paddedPreimage |-> r.val.padded,
                 digestIndex |-> (r.val.len - 64) \div 8])

\* generatePartialSHA256Inputs(message, maxPaddedBytes, selector), the
\* selector being given by the number of whole blocks before it
generatePartialSHA256Inputs(message, maxPaddedBytes, cutBlocks) ==
    LET messageSHALength == ((Len(message) + 63 + 65) \div 64) * 64
        r == sha256Pad(message, Max(maxPaddedBytes, messageSHALength))
        shaCutoffIndex == BlockBytes * cutBlocks
        body == r.val.padded
        bodyRemainingLength == r.val.len - shaCutoffIndex
        bodyRemaining == SubSeq(body, shaCutoffIndex + 1, Len(body))
    IN  IF ~r.ok THEN r
        ELSE IF bodyRemainingLength > maxPaddedBytes THEN Fail("capacity")
        ELSE Ok([precomputedHash |->
                    stateToBytes(foldCompress(initialState,
                        standardBlocks(SubSeq(body, 1, shaCutoffIndex)))),
                 messageRemainingBytes |->
                    bodyRemaining
                      \o Zeros(Max(0, maxPaddedBytes - Len(bodyRemaining))),
                 digestIndex |-> bodyRemainingLength \div 8 - 8])

(***************************************************************************)
(* Inputs of the model.                                                    *)
(***************************************************************************)
\* message lengths around the block and padding boundaries
MsgLens == {l \in 0..MaxMsgLen : l % BlockBytes \in {0, 1, 55, 56, 63}}
Variants == 0..MaxVariant
MsgByte(j, v) == (37 * j + 101 * v + 11) % ByteRadix
Message(len, v) == [j \in 1..len |-> MsgByte(j, v)]
Capacities == {BlockBytes * b : b \in 1..MaxBlocks}
\* bytes appended to a padded buffer: non-zero, and of these lengths
ExtraLens == {1, 4, 11, 61, 63, 64}
Extra(n) == [j \in 1..n |-> 1 + (j % 7)]
\* digest indices tried on a buffer of n blocks; a negative index is the
\* field element p - k
IndexRange(n) == -2..(StateWords * n + 2)

\* 32 bytes that are not the precomputed hash the helper returned
OtherHash(hash) == [k \in 1..Len(hash) |-> (hash[k] + k) % ByteRadix]

NoTamper == [kind |-> "none", arg |-> 0]
\* a buffer produced by the helper, then changed by the caller
Tampered(buf, t) ==
    \* t.arg is the 0-based position of a zero filler byte
    IF t.kind = "filler" THEN [buf EXCEPT ![t.arg + 1] = 255]
    ELSE IF t.kind = "append" THEN buf \o Extra(t.arg)
    ELSE buf

(***************************************************************************)
(* State.                                                                  *)
(***************************************************************************)
VARIABLES
    pc,                  \* position of the call in progress
    fn,                  \* the exported function called
    paddedPreimage,      \* argument: the padded buffer (bytes)
    digestIndex,         \* argument: the digest index (Field)
    precomputedHash,     \* argument of partialSHA256 (bytes)
    initialHashValue,    \* argument: the seed (8 words)
    messageBlocks,       \* dynamicSHA256: the blocks of the buffer
    hashValues,          \* dynamicSHA256: the hash states, one per row
    i,                   \* dynamicSHA256: the loop counter
    flattenedHashValues, \* dynamicSHA256: hashValues.flat()
    digestWords,         \* dynamicSHA256: the selected words
    dynamicDigest,       \* the bytes returned
    error,               \* "none", or the kind of the error thrown
    compressLog,         \* history: the 0-based block index of every
                         \* compression step of the call, in order
    scenario,            \* history: how the arguments were produced
    util                 \* a direct call of a utility: arguments and result

vars == << pc, fn, paddedPreimage, digestIndex, precomputedHash,
           initialHashValue, messageBlocks, hashValues, i,
           flattenedHashValues, digestWords, dynamicDigest, error,
           compressLog, scenario, util >>

NoScenario ==
    [m |-> <<>>, cap |-> 0, trueIndex |-> 0, tamper |-> NoTamper,
     cut |-> 0, genuine |-> TRUE, valid |-> FALSE,
     args |-> [paddedPreimage |-> <<>>, digestIndex |-> 0,
               precomputedHash |-> <<>>]]
NoUtil == [name |-> "none"]

Init ==
    /\ pc = "idle"
    /\ fn = "none"
    /\ paddedPreimage = <<>>
    /\ digestIndex = 0
    /\ precomputedHash = <<>>
    /\ initialHashValue = <<>>
    /\ messageBlocks = <<>>
    /\ hashValues = <<>>
    /\ i = 0
    /\ flattenedHashValues = <<>>
    /\ digestWords = <<>>
    /\ dynamicDigest = <<>>
    /\ error = "none"
    /\ compressLog = <<>>
    /\ scenario = NoScenario
    /\ util = NoUtil

locals == << messageBlocks, hashValues, i, flattenedHashValues, digestWords,
             dynamicDigest, error, compressLog >>

(***************************************************************************)
(* dynamicSHA256(paddedPreimage, digestIndex), the seed defaulted to       *)
(* Gadgets.SHA256.initialState: the caller pads message m to capacity cap  *)
(* with the helper, possibly changes the buffer (t), and passes index d.   *)
(***************************************************************************)
CallDynamic(m, cap, t, d) ==
    LET h == dynamicSHA256Pad(m, cap)
    IN  /\ pc = "idle"
        /\ h.ok
        /\ t.kind = "filler" => t.arg \in getPaddedLength(Len(m))..(cap - 1)
        /\ pc' = "split"
        /\ fn' = "dynamicSHA256"
        /\ paddedPreimage' = Tampered(h.val.paddedPreimage, t)
        /\ digestIndex' = d
        /\ initialHashValue' = initialState
        /\ scenario' = [m |-> m, cap |-> cap, trueIndex |-> h.val.digestIndex,
                        tamper |-> t, cut |-> 0, genuine |-> TRUE,
                        valid |-> TRUE,
                        args |-> [paddedPreimage |->
                                     Tampered(h.val.paddedPreimage, t),
                                  digestIndex |-> d,
                                  precomputedHash |-> <<>>]]
        /\ UNCHANGED << precomputedHash, locals, util >>

(***************************************************************************)
(* partialSHA256(precomputedHash, remainingMessageBlocks, digestIndex):    *)
(* the caller splits m after cut blocks with the helper, and passes the    *)
(* helper's precomputed hash (genuine) or another 32 bytes, and index d.   *)
(***************************************************************************)
CallPartial(m, cap, cut, genuine, d) ==
    LET h == generatePartialSHA256Inputs(m, cap, cut)
        pre == IF genuine THEN h.val.precomputedHash
               ELSE OtherHash(h.val.precomputedHash)
    IN  /\ pc = "idle"
        /\ h.ok
        /\ pc' = "adapt"
        /\ fn' = "partialSHA256"
        /\ paddedPreimage' = h.val.messageRemainingBytes
        /\ digestIndex' = d
        /\ precomputedHash' = pre
        /\ scenario' = [m |-> m, cap |-> cap, trueIndex |-> h.val.digestIndex,
                        tamper |-> NoTamper, cut |-> cut, genuine |-> genuine,
                        valid |-> TRUE,
                        args |-> [paddedPreimage |->
                                     h.val.messageRemainingBytes,
                                  digestIndex |-> d,
                                  precomputedHash |-> pre]]
        /\ UNCHANGED << initialHashValue, locals, util >>

\* mutant of precomputedHashWords: the seed passed on is the default one
precomputedHashWordsDefault(hash) ==
    IF Len(hash) % 4 # 0 THEN Fail("length") ELSE Ok(initialState)

\* mutant of precomputedHashWords: an all-zero precomputed hash is refused
precomputedHashWordsValidated(hash) ==
    IF \A k \in 1..Len(hash) : hash[k] = 0 THEN Fail("precomputed")
    ELSE bytesToWords(hash, 4)

\* partialSHA256, line 80: the precomputed hash as words
precomputedHashWords(hash) == bytesToWords(hash, 4)

\* partialSHA256, lines 80-87: the words of the precomputed hash become the
\* seed of dynamicSHA256
Adapt ==
    /\ pc = "adapt"
    /\ LET r == precomputedHashWords(precomputedHash)
       IN  IF r.ok
           THEN /\ initialHashValue' = r.val
                /\ pc' = "split"
                /\ error' = error
           ELSE /\ initialHashValue' = initialHashValue
                /\ pc' = "failed"
                /\ error' = r.err
    /\ UNCHANGED << fn, paddedPreimage, digestIndex, precomputedHash,
                    messageBlocks, hashValues, i, flattenedHashValues,
                    digestWords, dynamicDigest, compressLog, scenario, util >>

(***************************************************************************)
(* dynamicSHA256, stage by stage.                                          *)
(***************************************************************************)
\* lines 26-33: split the buffer (which may throw), then one row per block
\* plus one, the first row a copy of the seed
Split ==
    /\ pc = "split"
    /\ LET r == generateMessageBlocks(paddedPreimage)
       IN  IF r.ok
           THEN /\ messageBlocks' = r.val
                /\ hashValues' = [k \in 1..(Len(r.val) + 1) |->
                                    IF k = 1 THEN initialHashValue ELSE <<>>]
                /\ pc' = "compress"
                /\ error' = error
           ELSE /\ UNCHANGED << messageBlocks, hashValues >>
                /\ pc' = "failed"
                /\ error' = r.err
    /\ paddedPreimage' = bytesAfterSplit(paddedPreimage)
    /\ i' = 0
    /\ UNCHANGED << fn, digestIndex, precomputedHash,
                    initialHashValue, flattenedHashValues, digestWords,
                    dynamicDigest, compressLog, scenario, util >>

\* mutant of compressLoopGuard: the loop leaves the last block out
compressLoopGuardShort(k, blocks) == k < Len(blocks) - 1

\* mutant of compressionRow: every row is computed from the seed
compressionRowFromSeed(rows, blocks, k) == compress(rows[1], blocks[k + 1])

\* mutant of compressLoopGuard: the loop stops at the block of the digest
compressLoopGuardToIndex(k, blocks) ==
    k < Len(blocks) /\ StateWords * k < digestIndex + StateWords

\* line 36: the condition of the compression loop
compressLoopGuard(k, blocks) == k < Len(blocks)

\* lines 37-42: the row written by iteration k (0-based) of the loop
compressionRow(rows, blocks, k) == compress(rows[k + 1], blocks[k + 1])

\* lines 36-43: one iteration of the compression loop
CompressStep ==
    /\ pc = "compress"
    /\ compressLoopGuard(i, messageBlocks)
    /\ hashValues' = [hashValues EXCEPT
                        ![i + 2] = compressionRow(hashValues, messageBlocks, i)]
    /\ compressLog' = Append(compressLog, i)
    /\ i' = i + 1
    /\ UNCHANGED << pc, fn, paddedPreimage, digestIndex, precomputedHash,
                    initialHashValue, messageBlocks, flattenedHashValues,
                    digestWords, dynamicDigest, error, scenario, util >>

\* mutant of flattenHashValues: the rows are laid out last row first
flattenHashValuesReversed(rows) == Flat(Reverse(rows))

\* line 46: the words the selector reads
flattenHashValues(rows) == Flat(rows)

\* lines 43-49: the loop ends, the rows are flattened
Flatten ==
    /\ pc = "compress"
    /\ ~compressLoopGuard(i, messageBlocks)
    /\ flattenedHashValues' = flattenHashValues(hashValues)
    /\ digestWords' = <<>>
    /\ i' = 0
    /\ pc' = "select"
    /\ UNCHANGED << fn, paddedPreimage, digestIndex, precomputedHash,
                    initialHashValue, messageBlocks, hashValues,
                    dynamicDigest, error, compressLog, scenario, util >>

\* lines 50-52: one iteration of the selection loop, which throws when
\* wordAtIndex does
SelectStep ==
    /\ pc = "select"
    /\ i <= 7
    /\ LET r == wordAtIndex(flattenedHashValues, digestIndex + i)
       IN  IF r.ok
           THEN /\ digestWords' = Append(digestWords, r.val)
                /\ i' = i + 1
                /\ UNCHANGED << pc, error >>
           ELSE /\ pc' = "failed"
                /\ error' = r.err
                /\ UNCHANGED << digestWords, i >>
    /\ UNCHANGED << fn, paddedPreimage, digestIndex, precomputedHash,
                    initialHashValue, messageBlocks, hashValues,
                    flattenedHashValues, dynamicDigest, compressLog,
                    scenario, util >>

\* mutant of digestBytes: the bytes of a word are kept little-endian
digestBytesLittleEndian(words) ==
    LET parts == [k \in 1..Len(words) |-> wordToBytes(words[k], 4, FALSE)]
    IN  IF \E k \in 1..Len(words) : ~parts[k].ok THEN Fail("decomposition")
        ELSE Ok(Flat([k \in 1..Len(words) |-> parts[k].val]))

\* lines 55-57: the bytes of the selected words
digestBytes(words) ==
    LET parts == [k \in 1..Len(words) |-> wordToBytes(words[k], 4, TRUE)]
    IN  IF \E k \in 1..Len(words) : ~parts[k].ok THEN Fail("decomposition")
        ELSE Ok(Flat([k \in 1..Len(words) |-> parts[k].val]))

\* lines 54-59: the digest is built and returned
Convert ==
    /\ pc = "select"
    /\ i > 7
    /\ LET r == digestBytes(digestWords)
       IN  IF r.ok
           THEN /\ dynamicDigest' = r.val
                /\ pc' = "done"
                /\ error' = error
           ELSE /\ dynamicDigest' = dynamicDigest
                /\ pc' = "failed"
                /\ error' = r.err
    /\ UNCHANGED << fn, paddedPreimage, digestIndex, precomputedHash,
                    initialHashValue, messageBlocks, hashValues, i,
                    flattenedHashValues, digestWords, compressLog,
                    scenario, util >>

(***************************************************************************)
(* The outcome of a call as a function of its arguments: the digest        *)
(* returned, or the error thrown.                                          *)
(***************************************************************************)
\* the rows of hashValues when the compression loop has ended: the seed,
\* then the state after each block
hashRows(blocks, seed) ==
    [r \in 1..(Len(blocks) + 1) |->
        foldCompress(seed, SubSeq(blocks, 1, r - 1))]

\* dynamicSHA256(paddedPreimage, digestIndex, initialHashValue)
dynamicSHA256(preimage, index, seed) ==
    LET s == generateMessageBlocks(preimage)
    IN  IF ~s.ok THEN Fail(s.err)
        ELSE LET rows == hashRows(s.val, seed)
                 flat == flattenHashValues(rows)
                 sel == [k \in 1..8 |-> wordAtIndex(flat, index + k - 1)]
             IN  IF \E k \in 1..8 : ~sel[k].ok THEN Fail("index")
                 ELSE digestBytes([k \in 1..8 |-> sel[k].val])

\* partialSHA256(precomputedHash, remainingMessageBlocks, digestIndex)
partialSHA256(hash, remaining, index) ==
    LET w == precomputedHashWords(hash)
    IN  IF ~w.ok THEN Fail(w.err)
        ELSE dynamicSHA256(remaining, index, w.val)

(***************************************************************************)
(* The oblivious subarray selector selectSubarray(sequence, start,         *)
(* runLength) of the selectSubarray variant of dynamicSHA256: start is     *)
(* read as a binary number with one bit per doubling of the length, and    *)
(* pass j blends every position i with position (i + 2^j) mod length,      *)
(* selected by bit j of start; the first runLength positions are returned, *)
(* each of which must be non-zero.                                         *)
(***************************************************************************)
RECURSIVE BitLength(_)
\* the number of bits of the positions below n
BitLength(n) == IF n <= 1 THEN 0 ELSE 1 + BitLength((n + 1) \div 2)

\* bit j of x
Bit(x, j) == (x \div Pow2(j)) % 2

RECURSIVE afterPassesDoubleShift(_, _, _, _)
\* mutant of afterPasses: the pass of bit j - 1 shifts by 2^j
afterPassesDoubleShift(sequence, start, j, p) ==
    IF j = 0 THEN sequence[p + 1]
    ELSE LET bit == Bit(start, j - 1)
             offset == (p + Pow2(j)) % Len(sequence)
         IN  FAdd(FMulBool(afterPassesDoubleShift(sequence, start, j - 1, p),
                           1 - bit),
                  FMulBool(afterPassesDoubleShift(sequence, start, j - 1,
                                                  offset), bit))

RECURSIVE afterPasses(_, _, _, _)
\* the word at 0-based position p once the passes 0 .. j - 1 have run:
\* pass j - 1 blends the word at p with the word at (p + 2^(j-1)) mod length
afterPasses(sequence, start, j, p) ==
    IF j = 0 THEN sequence[p + 1]
    ELSE LET bit == Bit(start, j - 1)
             offset == (p + Pow2(j - 1)) % Len(sequence)
         IN  FAdd(FMulBool(afterPasses(sequence, start, j - 1, p), 1 - bit),
                  FMulBool(afterPasses(sequence, start, j - 1, offset), bit))

selectSubarray(sequence, start, runLength) ==
    LET bits == BitLength(Len(sequence))
        rotated == [k \in 1..Len(sequence) |->
                      afterPasses(sequence, start, bits, k - 1)]
        run == SubSeq(rotated, 1, runLength)
    IN  IF runLength > Len(sequence)
        THEN [ok |-> FALSE, val |-> <<>>, err |-> "length", rotated |-> <<>>]
        ELSE IF start = 0 \/ start \notin 0..(Pow2(bits) - 1)
        THEN [ok |-> FALSE, val |-> <<>>, err |-> "index", rotated |-> <<>>]
        ELSE IF \E k \in 1..runLength : run[k] = FZero
        THEN [ok |-> FALSE, val |-> <<>>, err |-> "null", rotated |-> rotated]
        ELSE [ok |-> TRUE, val |-> run, err |-> "none", rotated |-> rotated]

(***************************************************************************)
(* Direct calls of the exported utilities.                                 *)
(***************************************************************************)
\* the words a utility is called with
UtilWords == {FZero, W(0, 1), W(32768, 0), W(65535, 65535)}

RECURSIVE SeqsUpTo(_, _)
\* the sequences over S of length at most n
SeqsUpTo(S, n) ==
    IF n = 0 THEN {<<>>}
    ELSE LET shorter == SeqsUpTo(S, n - 1)
         IN  shorter \cup {Append(q, x) : q \in shorter, x \in S}

CallWordAtIndex(wordsArray, index) ==
    /\ pc = "idle"
    /\ pc' = "util"
    /\ util' = [name |-> "wordAtIndex", wordsArray |-> wordsArray,
                index |-> index, out |-> wordAtIndex(wordsArray, index)]
    /\ UNCHANGED << fn, paddedPreimage, digestIndex, precomputedHash,
                    initialHashValue, locals, scenario >>

\* the byte strings bytesToWords is called with: all 0, all 255, mixed
AdapterLens == {0, 1, 3, 4, 5, 8, 30, 31, 32, 33}
AdapterBytes(len, v) ==
    [j \in 1..len |-> IF v = 0 THEN 0
                      ELSE IF v = 1 THEN 255
                      ELSE (59 * j + 97 * v) % ByteRadix]

CallBytesToWords(bytes) ==
    /\ pc = "idle"
    /\ pc' = "util"
    /\ util' = [name |-> "bytesToWords", bytes |-> bytes,
                out |-> bytesToWords(bytes, 4)]
    /\ UNCHANGED << fn, paddedPreimage, digestIndex, precomputedHash,
                    initialHashValue, locals, scenario >>

\* blocks that are zero except at positions p and q of the flat sequence
PadBlocks(n, p, q, w) ==
    LET flat == [k \in 0..(BlockWords * n - 1) |->
                    IF k = p \/ k = q THEN w ELSE FZero]
    IN  [b \in 1..n |-> [j \in 1..BlockWords |->
                            flat[BlockWords * (b - 1) + j - 1]]]

CallAssertZeroPadding(blocks, d) ==
    /\ pc = "idle"
    /\ pc' = "util"
    /\ util' = [name |-> "assertZeroPadding", messageBlocks |-> blocks,
                digestIndex |-> d, out |-> assertZeroPadding(blocks, d)]
    /\ UNCHANGED << fn, paddedPreimage, digestIndex, precomputedHash,
                    initialHashValue, locals, scenario >>

\* the capacities the helper is called with directly: too small, not a
\* multiple of 8, a multiple of 8 but not of 64, and the multiples of 64
PadCapacities == {0, 8, 63, 72, 100, 134, 136} \cup Capacities

\* dynamicSHA256Pad(message, maxPaddedBytes), called on its own
CallDynamicSHA256Pad(message, maxPaddedBytes) ==
    /\ pc = "idle"
    /\ pc' = "util"
    /\ util' = [name |-> "dynamicSHA256Pad", message |-> message,
                maxPaddedBytes |-> maxPaddedBytes,
                out |-> dynamicSHA256Pad(message, maxPaddedBytes)]
    /\ UNCHANGED << fn, paddedPreimage, digestIndex, precomputedHash,
                    initialHashValue, locals, scenario >>

CallSelectSubarray(sequence, start, runLength) ==
    /\ pc = "idle"
    /\ pc' = "util"
    /\ util' = [name |-> "selectSubarray", sequence |-> sequence,
                start |-> start, runLength |-> runLength,
                out |-> selectSubarray(sequence, start, runLength)]
    /\ UNCHANGED << fn, paddedPreimage, digestIndex, precomputedHash,
                    initialHashValue, locals, scenario >>

\* assertZeroPadding on the blocks of a buffer the helper made for message
\* m and the caller changed (t), with digest index d
CallPaddingCheck(m, cap, t, d) ==
    LET h == dynamicSHA256Pad(m, cap)
        blocks == generateMessageBlocks(Tampered(h.val.paddedPreimage, t))
    IN  /\ pc = "idle"
        /\ h.ok
        /\ t.kind = "filler" => t.arg \in getPaddedLength(Len(m))..(cap - 1)
        /\ blocks.ok
        /\ pc' = "util"
        /\ util' = [name |-> "assertZeroPadding",
                    messageBlocks |-> blocks.val, digestIndex |-> d,
                    out |-> assertZeroPadding(blocks.val, d)]
        /\ scenario' = [m |-> m, cap |-> cap, trueIndex |-> h.val.digestIndex,
                        tamper |-> t, cut |-> 0, genuine |-> TRUE,
                        valid |-> TRUE,
                        args |-> [paddedPreimage |->
                                     Tampered(h.val.paddedPreimage, t),
                                  digestIndex |-> d,
                                  precomputedHash |-> <<>>]]
        /\ UNCHANGED << fn, paddedPreimage, digestIndex, precomputedHash,
                        initialHashValue, locals >>

\* the call returns or its error reaches the caller; nothing is kept
Return ==
    /\ pc \in {"done", "failed", "util"}
    /\ pc' = "idle"
    /\ fn' = "none"
    /\ paddedPreimage' = <<>>
    /\ digestIndex' = 0
    /\ precomputedHash' = <<>>
    /\ initialHashValue' = <<>>
    /\ messageBlocks' = <<>>
    /\ hashValues' = <<>>
    /\ i' = 0
    /\ flattenedHashValues' = <<>>
    /\ digestWords' = <<>>
    /\ dynamicDigest' = <<>>
    /\ error' = "none"
    /\ compressLog' = <<>>
    /\ scenario' = NoScenario
    /\ util' = NoUtil

\* the changes a caller makes to a buffer of cap bytes: a filler byte (one
\* position in seven, which reaches every offset within a word) or an append
Tampers(cap) ==
    {NoTamper}
      \cup {[kind |-> "filler", arg |-> a] :
               a \in {b \in 0..(cap - 1) : b % 7 = 1}}
      \cup {[kind |-> "append", arg |-> n] : n \in ExtraLens}

\* a caller hashes a message through the helper, with any digest index
DynamicCall ==
    /\ pc = "idle"
    /\ \E len \in MsgLens, v \in Variants, cap \in Capacities :
          \E d \in IndexRange(cap \div BlockBytes) :
             CallDynamic(Message(len, v), cap, NoTamper, d)

\* a caller changes the helper's buffer and keeps the helper's index
TamperedCall ==
    /\ pc = "idle"
    /\ \E len \in MsgLens, v \in Variants, cap \in Capacities :
          \E t \in Tampers(cap) \ {NoTamper} :
             CallDynamic(Message(len, v), cap, t,
                         (getPaddedLength(len) - 64) \div 8)

\* a caller hashes the part of a message that follows cut blocks
PartialCall ==
    /\ pc = "idle"
    /\ \E len \in MsgLens, v \in Variants, cap \in Capacities :
          \E cut \in 0..(len \div BlockBytes), genuine \in BOOLEAN,
             d \in IndexRange(cap \div BlockBytes) :
             /\ genuine \/ d % StateWords \in {0, 7}
             /\ CallPartial(Message(len, v), cap, cut, genuine, d)

WordAtIndexCall ==
    /\ pc = "idle"
    /\ \E wordsArray \in SeqsUpTo(UtilWords, MaxSeqLen),
          index \in -2..(MaxSeqLen + 1) :
          CallWordAtIndex(wordsArray, index)

\* the padding check on a helper's buffer, unchanged or changed, with the
\* helper's index or the one below
PaddingCheckCall ==
    /\ pc = "idle"
    /\ \E len \in MsgLens, v \in Variants, cap \in Capacities :
          \E t \in Tampers(cap), back \in {0, 1} :
             CallPaddingCheck(Message(len, v), cap, t,
                              (getPaddedLength(len) - 64) \div 8 - back)

\* selectSubarray on short sequences of any words
SelectSubarrayCall ==
    /\ pc = "idle"
    /\ \E sequence \in SeqsUpTo({FZero, W(0, 1), W(65535, 65535)},
                                MaxSeqLen) :
          \E start \in 0..Len(sequence),
             runLength \in 0..(Len(sequence) + 1) :
             CallSelectSubarray(sequence, start, runLength)

\* selectSubarray on the flattened hash states of a helper's buffer, as
\* the selectSubarray variant of dynamicSHA256 calls it
SelectDigestCall ==
    /\ pc = "idle"
    /\ \E len \in MsgLens, v \in Variants, cap \in Capacities :
          LET h == dynamicSHA256Pad(Message(len, v), cap)
              blocks == generateMessageBlocks(h.val.paddedPreimage)
          IN  /\ h.ok
              /\ blocks.ok
              /\ \E flat \in {flattenHashValues(hashRows(blocks.val,
                                                          initialState))} :
                    \E start \in 0..Len(flat) :
                       CallSelectSubarray(flat, start, StateWords)

DynamicSHA256PadCall ==
    /\ pc = "idle"
    /\ \E len \in MsgLens, v \in Variants, cap \in PadCapacities :
          CallDynamicSHA256Pad(Message(len, v), cap)

BytesToWordsCall ==
    /\ pc = "idle"
    /\ \E len \in AdapterLens, v \in 0..3 :
          CallBytesToWords(AdapterBytes(len, v))

AssertZeroPaddingCall ==
    /\ pc = "idle"
    /\ \E n \in 1..MaxPadBlocks, w \in UtilWords,
          d \in -8..(8 * MaxPadBlocks + 1) :
          \E p \in 0..(BlockWords * n - 1) :
             \E q \in {p, BlockWords * n - 1} :
                CallAssertZeroPadding(PadBlocks(n, p, q, w), d)

Next ==
    \/ DynamicCall
    \/ TamperedCall
    \/ PartialCall
    \/ Adapt
    \/ Split
    \/ CompressStep
    \/ Flatten
    \/ SelectStep
    \/ Convert
    \/ WordAtIndexCall
    \/ AssertZeroPaddingCall
    \/ BytesToWordsCall
    \/ PaddingCheckCall
    \/ SelectSubarrayCall
    \/ SelectDigestCall
    \/ DynamicSHA256PadCall
    \/ Return

Spec == Init /\ [][Next]_vars

(***************************************************************************)
(* Vocabulary of the claims.                                               *)
(***************************************************************************)
Finished == pc \in {"done", "failed"}
\* the compression loop of the call has ended
PastCompression ==
    \/ pc \in {"select", "done"}
    \/ pc = "failed" /\ error \in {"index", "decomposition"}
\* the helper's buffer, unchanged
Untampered == scenario.valid /\ scenario.tamper = NoTamper
\* the 32 bytes of the standard SHA-256 of the message of the call
StandardDigest == stateToBytes(standardHash(scenario.m))
\* what a finished call gave its caller
Outcome == IF pc = "done" THEN Ok(dynamicDigest) ELSE Fail(error)
\* the call is the one the helper prepared: its buffer and its digest index
HelperCall == Untampered /\ Finished /\ digestIndex = scenario.trueIndex
\* the words whose big-endian bytes are the given ones, four per word
BigEndianWords(bytes) ==
    [k \in 1..(Len(bytes) \div 4) |->
        W(bytes[4 * k - 3] * ByteRadix + bytes[4 * k - 2],
          bytes[4 * k - 1] * ByteRadix + bytes[4 * k])]
IsWordAtIndexCall == pc = "util" /\ util.name = "wordAtIndex"
IsAssertZeroPaddingCall == pc = "util" /\ util.name = "assertZeroPadding"
IsBytesToWordsCall == pc = "util" /\ util.name = "bytesToWords"
IsSelectSubarrayCall == pc = "util" /\ util.name = "selectSubarray"
IsDynamicSHA256PadCall == pc = "util" /\ util.name = "dynamicSHA256Pad"

(***************************************************************************)
(* C1.  Round trip with the standard hash: dynamicSHA256 on the buffer and *)
(* the digest index of dynamicSHA256Pad(m, capacity) succeeds and returns  *)
(* the standard SHA-256 digest of m.                                       *)
(***************************************************************************)
C1_RoundTrip ==
    (fn = "dynamicSHA256" /\ Untampered /\ Finished
        /\ digestIndex = scenario.trueIndex)
    => (pc = "done" /\ dynamicDigest = StandardDigest)

(***************************************************************************)
(* C2.  Index tamper-rejection: on a validly padded buffer, dynamicSHA256  *)
(* with any digest index other than the helper's fails with a padding or   *)
(* an invalid-index error.                                                 *)
(***************************************************************************)
C2_IndexTamperRejected ==
    (fn = "dynamicSHA256" /\ Untampered /\ Finished
        /\ digestIndex # scenario.trueIndex)
    => (pc = "failed" /\ error \in {"padding", "index"})

(***************************************************************************)
(* C3.  Padding tamper-rejection: with the helper's digest index, a buffer *)
(* in which a zero filler byte was made non-zero, or to which a multiple   *)
(* of 64 non-zero bytes was appended, makes dynamicSHA256 fail with a      *)
(* padding error.                                                          *)
(***************************************************************************)
C3_PaddingTamperRejected ==
    (fn = "dynamicSHA256" /\ scenario.valid /\ Finished
        /\ digestIndex = scenario.trueIndex
        /\ \/ scenario.tamper.kind = "filler"
           \/ scenario.tamper.kind = "append"
                /\ scenario.tamper.arg % BlockBytes = 0)
    => (pc = "failed" /\ error = "padding")

(***************************************************************************)
(* C4.  Partial hashing equals the standard hash: partialSHA256 on the     *)
(* precomputed hash, the remaining buffer and the digest index of          *)
(* generatePartialSHA256Inputs returns the standard SHA-256 digest of the  *)
(* whole message.                                                          *)
(***************************************************************************)
C4_PartialEqualsStandard ==
    (fn = "partialSHA256" /\ scenario.valid /\ scenario.genuine /\ Finished
        /\ digestIndex = scenario.trueIndex)
    => (pc = "done" /\ dynamicDigest = StandardDigest)

(***************************************************************************)
(* C5.  Malformed-length rejection: a buffer whose length is not divisible *)
(* by 64 makes the split fail with the length error, so that no digest is  *)
(* returned for it.                                                        *)
(***************************************************************************)
C5_MalformedLengthRejected ==
    (fn # "none" /\ Len(paddedPreimage) % BlockBytes # 0
        /\ pc \notin {"adapt", "split"})
    => (pc = "failed" /\ error = "length")

(***************************************************************************)
(* C6.  wordAtIndex(sequence, index) returns sequence[index] for every     *)
(* index with 0 <= index < len(sequence), exactly one indicator being 1;   *)
(* the words selected by dynamicSHA256 are those at digestIndex + k.       *)
(***************************************************************************)
C6_WordAtIndexSelects ==
    /\ (IsWordAtIndexCall /\ util.index \in 0..(Len(util.wordsArray) - 1))
       => /\ util.out.ok
          /\ util.out.totalIndex = 1
          /\ util.out.val = util.wordsArray[util.index + 1]
    /\ pc \in {"select", "done"}
       => \A k \in 1..Len(digestWords) :
             digestWords[k] = flattenedHashValues[digestIndex + k]

C6_Witness ==
    /\ IsWordAtIndexCall
    /\ Len(util.wordsArray) = 3
    /\ util.index = 2
    /\ util.wordsArray[1] # FZero
    /\ util.out.ok
    /\ util.out.val = W(65535, 65535)

(***************************************************************************)
(* C7.  wordAtIndex fails with the invalid-index error for every index     *)
(* outside [0, len(sequence)), the sum of the indicators being 0 then; for *)
(* no index is the sum greater than 1.                                     *)
(***************************************************************************)
C7_InvalidIndexRejected ==
    IsWordAtIndexCall
    => /\ util.out.totalIndex <= 1
       /\ util.index \notin 0..(Len(util.wordsArray) - 1)
          => /\ ~util.out.ok
             /\ util.out.err = "index"
             /\ util.out.totalIndex = 0

C7_Witness ==
    /\ IsWordAtIndexCall
    /\ util.wordsArray = <<>>
    /\ util.index = 0
    /\ ~util.out.ok
    /\ util.out.err = "index"

(***************************************************************************)
(* C8.  The compression pipeline on n blocks produces n + 1 hash states of *)
(* 8 words: the first is the seed, each next one the compression of its    *)
(* predecessor with the next block; the flattened sequence of 8 * (n + 1)  *)
(* words holds them in order.                                              *)
(***************************************************************************)
C8_PipelineStates ==
    PastCompression
    => LET n == Len(messageBlocks)
       IN  /\ Len(hashValues) = n + 1
           /\ \A r \in 1..(n + 1) : Len(hashValues[r]) = StateWords
           /\ hashValues[1] = initialHashValue
           /\ \A r \in 1..n :
                 hashValues[r + 1] = compress(hashValues[r], messageBlocks[r])
           /\ Len(flattenedHashValues) = StateWords * (n + 1)
           /\ \A r \in 1..(n + 1), j \in 1..StateWords :
                 flattenedHashValues[StateWords * (r - 1) + j] = hashValues[r][j]

C8_Witness ==
    /\ pc = "done"
    /\ Len(messageBlocks) = 3
    /\ Len(flattenedHashValues) = 32
    /\ hashValues[4] = compress(hashValues[3], messageBlocks[3])
    /\ hashValues[4] # hashValues[3]

(***************************************************************************)
(* C9.  Uniform cost: in a call whose buffer length is a multiple of 64,   *)
(* the compression step runs exactly length / 64 times, once per block in  *)
(* block order, whatever the digest index and the length of the content.   *)
(***************************************************************************)
C9_UniformCost ==
    (fn # "none" /\ Len(paddedPreimage) % BlockBytes = 0)
    => LET n == Len(paddedPreimage) \div BlockBytes
       IN  /\ pc = "compress"
              => i <= n /\ compressLog = [k \in 1..i |-> k - 1]
           /\ PastCompression => compressLog = [k \in 1..n |-> k - 1]

C9_Witness ==
    /\ pc = "failed"
    /\ error = "index"
    /\ scenario.m = <<>>
    /\ Len(paddedPreimage) = 3 * BlockBytes
    /\ compressLog = <<0, 1, 2>>

C11_PaddingCheckIntegrated ==
    (fn # "none" /\ pc = "done")
    => LET words == Flat(messageBlocks)
           start == (digestIndex + 8) * 2
       IN  \A k \in 0..(Len(words) - 1) : k > start => words[k + 1] = FZero

(***************************************************************************)
(* C12.  Capacity independence: the digest dynamicSHA256 returns on the    *)
(* helper's buffer and index for a message does not depend on the          *)
(* capacity: it is the one returned for every other capacity that is a     *)
(* multiple of 64 and not below the padded length of the message.          *)
(***************************************************************************)
C12_CapacityIndependence ==
    (fn = "dynamicSHA256" /\ HelperCall)
    => \A c2 \in Capacities :
          LET h2 == dynamicSHA256Pad(scenario.m, c2)
          IN  h2.ok
              => /\ pc = "done"
                 /\ Outcome = dynamicSHA256(h2.val.paddedPreimage,
                                            h2.val.digestIndex, initialState)

C12_Witness ==
    /\ fn = "dynamicSHA256" /\ HelperCall
    /\ pc = "done"
    /\ Len(scenario.m) = 56
    /\ scenario.cap = 3 * BlockBytes
    /\ dynamicSHA256Pad(scenario.m, 2 * BlockBytes).ok
    /\ dynamicDigest # stateToBytes(initialState)

(***************************************************************************)
(* C13.  partialSHA256(precomputedHash, remaining, digestIndex) ends as    *)
(* dynamicSHA256(remaining, digestIndex, seed) does, the seed being the 8  *)
(* words of precomputedHash: the same digest or the same failure.  A call  *)
(* of dynamicSHA256 without a seed ends as with the standard initial       *)
(* state as seed.                                                          *)
(***************************************************************************)
C13_PartialIsSeededDynamic ==
    /\ (fn = "partialSHA256" /\ Finished)
       => /\ Len(scenario.args.precomputedHash) = 32
          /\ Outcome = dynamicSHA256(scenario.args.paddedPreimage,
                           scenario.args.digestIndex,
                           BigEndianWords(scenario.args.precomputedHash))
    /\ (fn = "dynamicSHA256" /\ Finished)
       => Outcome = dynamicSHA256(scenario.args.paddedPreimage,
                                  scenario.args.digestIndex, initialState)

C13_Witness ==
    /\ fn = "partialSHA256"
    /\ pc = "done"
    /\ scenario.cut = 1
    /\ digestIndex = 8
    /\ BigEndianWords(precomputedHash) # initialState
    /\ dynamicDigest =
          stateToBytes(compress(BigEndianWords(precomputedHash),
                                messageBlocks[1]))

C15_PrecomputedNotValidated ==
    (fn = "partialSHA256" /\ Finished)
    => LET genuineHash ==
              generatePartialSHA256Inputs(scenario.m, scenario.cap,
                                          scenario.cut).val.precomputedHash
           hashes == {genuineHash, OtherHash(genuineHash),
                      AdapterBytes(32, 0)}
       IN  \A hash \in hashes :
              LET other == partialSHA256(hash, scenario.args.paddedPreimage,
                                         scenario.args.digestIndex)
              IN  other.ok = Outcome.ok /\ other.err = Outcome.err

C15_Witness ==
    /\ fn = "partialSHA256"
    /\ pc = "done"
    /\ ~scenario.genuine
    /\ digestIndex = scenario.trueIndex + 8
    /\ LET genuineHash ==
              generatePartialSHA256Inputs(scenario.m, scenario.cap,
                                          scenario.cut).val.precomputedHash
           other == partialSHA256(genuineHash, paddedPreimage, digestIndex)
       IN  precomputedHash # genuineHash
           /\ other.ok /\ other.val # dynamicDigest

(***************************************************************************)
(* C16.  On the validly padded buffer of a non-empty message whose digest  *)
(* index is d, dynamicSHA256 with a digest index in 0 .. d - 1 fails with  *)
(* a padding error: a non-zero word of the padded content lies past the    *)
(* padding start (digestIndex + 8) * 2.                                    *)
(***************************************************************************)
C16_SmallerIndexPaddingError ==
    (fn = "dynamicSHA256" /\ Untampered /\ Finished
        /\ scenario.m # <<>>
        /\ digestIndex \in 0..(scenario.trueIndex - 1))
    => (pc = "failed" /\ error = "padding")

(***************************************************************************)
(* C17.  When assertZeroPadding fails, the position it names is the        *)
(* smallest position past the padding start that holds a non-zero word;    *)
(* on a valid buffer extended by non-zero bytes, that position lies in the *)
(* appended region.                                                        *)
(***************************************************************************)
C17_PaddingErrorIndex ==
    (IsAssertZeroPaddingCall /\ ~util.out.ok)
    => LET words == Flat(util.messageBlocks)
           start == (util.digestIndex + 8) * 2
           at == util.out.at
       IN  /\ util.out.err = "padding"
           /\ at \in 0..(Len(words) - 1)
           /\ at > start
           /\ words[at + 1] # FZero
           /\ \A k \in 0..(at - 1) : k > start => words[k + 1] = FZero
           /\ (scenario.valid /\ scenario.tamper.kind = "append"
                  /\ util.digestIndex = scenario.trueIndex)
              => at >= scenario.cap \div WordBytes

C17_Witness ==
    /\ IsAssertZeroPaddingCall
    /\ ~util.out.ok
    /\ scenario.valid
    /\ scenario.tamper = [kind |-> "append", arg |-> 64]
    /\ scenario.cap = 2 * BlockBytes
    /\ util.digestIndex = scenario.trueIndex
    /\ util.out.at = 32
    /\ Flat(util.messageBlocks)[34] # FZero

(***************************************************************************)
(* C18.  Empty message: the helper gives digest index 0 for every          *)
(* sufficient capacity, and dynamicSHA256 then returns the standard digest *)
(* of the empty string, the compression of the initial state with the one  *)
(* standard padding block, and not the seed.                               *)
(***************************************************************************)
C18_EmptyMessage ==
    (fn = "dynamicSHA256" /\ HelperCall /\ scenario.m = <<>>)
    => /\ digestIndex = 0
       /\ pc = "done"
       /\ dynamicDigest =
             stateToBytes(compress(initialState,
                              standardBlocks(standardPadding(<<>>))[1]))
       /\ dynamicDigest # stateToBytes(initialHashValue)

(***************************************************************************)
(* C19.  dynamicSHA256 and partialSHA256 keep no state between calls and   *)
(* leave their arguments as they were (the bytes of the buffer, the seed   *)
(* words, the bytes of the precomputed hash); what a call returns or       *)
(* throws is determined by its arguments.                                  *)
(***************************************************************************)
C19_NoStateArgumentsUnchanged ==
    /\ pc = "idle"
       => /\ << fn, paddedPreimage, digestIndex, precomputedHash,
                initialHashValue >> = << "none", <<>>, 0, <<>>, <<>> >>
          /\ << messageBlocks, hashValues, i, flattenedHashValues,
                digestWords, dynamicDigest, error, compressLog >>
                = << <<>>, <<>>, 0, <<>>, <<>>, <<>>, "none", <<>> >>
    /\ fn # "none"
       => /\ paddedPreimage = scenario.args.paddedPreimage
          /\ digestIndex = scenario.args.digestIndex
          /\ precomputedHash = scenario.args.precomputedHash
          /\ fn = "dynamicSHA256" => initialHashValue = initialState
          /\ (fn = "partialSHA256" /\ pc # "adapt")
             => initialHashValue = BigEndianWords(scenario.args.precomputedHash)
    /\ (fn = "dynamicSHA256" /\ Finished)
       => Outcome = dynamicSHA256(scenario.args.paddedPreimage,
                                  scenario.args.digestIndex, initialState)
    /\ (fn = "partialSHA256" /\ Finished)
       => Outcome = partialSHA256(scenario.args.precomputedHash,
                                  scenario.args.paddedPreimage,
                                  scenario.args.digestIndex)

C19_Witness ==
    /\ fn = "partialSHA256"
    /\ pc = "done"
    /\ scenario.cut = 1
    /\ Len(paddedPreimage) = 2 * BlockBytes
    /\ paddedPreimage = scenario.args.paddedPreimage
    /\ paddedPreimage[1] # paddedPreimage[4]
    /\ hashValues[2] # initialHashValue

(***************************************************************************)
(* C20.  Oblivious subarray selection: for a start with 0 < start <        *)
(* len(sequence) and a run length up to len(sequence), after the           *)
(* conditional-rotate passes position i holds sequence[(i + start) mod     *)
(* len(sequence)], and the result is the first runLength positions; with   *)
(* start = 8 * blockIndex and run length 8 these are the words the eight   *)
(* wordAtIndex selections at start .. start + 7 give.                      *)
(***************************************************************************)
C20_SelectSubarray ==
    IsSelectSubarrayCall
    => LET sequence == util.sequence
           n == Len(sequence)
           start == util.start
           out == util.out
       IN  (start \in 1..(n - 1) /\ util.runLength <= n)
           => /\ Len(out.rotated) = n
              /\ \A p \in 0..(n - 1) :
                    out.rotated[p + 1] = sequence[((p + start) % n) + 1]
              /\ out.ok <=> \A k \in 1..util.runLength :
                               out.rotated[k] # FZero
              /\ out.ok => out.val = SubSeq(out.rotated, 1, util.runLength)
              /\ (out.ok /\ util.runLength = 8 /\ start % 8 = 0)
                 => \A k \in 0..7 :
                       LET w == wordAtIndex(sequence, start + k)
                       IN  w.ok /\ w.val = out.val[k + 1]

C20_Witness ==
    /\ IsSelectSubarrayCall
    /\ Len(util.sequence) = 24
    /\ util.start = 16
    /\ util.runLength = 8
    /\ util.out.ok
    /\ util.out.val = SubSeq(util.sequence, 17, 24)
    /\ util.out.val # SubSeq(util.sequence, 1, 8)

(***************************************************************************)
(* C21.  Capacity-mismatch rejection: dynamicSHA256Pad(m, capacity) fails  *)
(* whenever capacity is below the standard-padded length of m or is not a  *)
(* multiple of 64; when it succeeds the buffer has exactly capacity bytes. *)
(***************************************************************************)
C21_CapacityMismatchRejected ==
    IsDynamicSHA256PadCall
    => LET capacity == util.maxPaddedBytes
           L == getPaddedLength(Len(util.message))
       IN  /\ (capacity < L \/ capacity % BlockBytes # 0) => ~util.out.ok
           /\ util.out.ok => Len(util.out.val.paddedPreimage) = capacity

(***************************************************************************)
(* C22.  On a buffer of 64 * n bytes the block splitter returns exactly n  *)
(* blocks of exactly 16 words, word j of block i being the big-endian      *)
(* value of bytes 64i + 4j .. 64i + 4j + 3, in buffer order; the partial-  *)
(* state adapter builds the same words from the same bytes.                *)
(***************************************************************************)
C22_SplitterBlocks ==
    (pc \in {"compress", "select", "done"}
       /\ Len(paddedPreimage) % BlockBytes = 0)
    => LET n == Len(paddedPreimage) \div BlockBytes
           b == paddedPreimage
       IN  /\ Len(messageBlocks) = n
           /\ \A blk \in 1..n :
                /\ Len(messageBlocks[blk]) = BlockWords
                /\ \A j \in 0..(BlockWords - 1) :
                     LET o == BlockBytes * (blk - 1) + WordBytes * j
                     IN  /\ messageBlocks[blk][j + 1].hi
                              = b[o + 1] * ByteRadix + b[o + 2]
                         /\ messageBlocks[blk][j + 1].lo
                              = b[o + 3] * ByteRadix + b[o + 4]
           /\ bytesToWords(b, WordBytes).ok
           /\ Flat(messageBlocks) = bytesToWords(b, WordBytes).val

C22_Witness ==
    /\ pc = "compress"
    /\ i = 0
    /\ Len(paddedPreimage) = 2 * BlockBytes
    /\ Len(messageBlocks) = 2
    /\ paddedPreimage[1] # paddedPreimage[4]
    /\ messageBlocks[1][1].hi \div ByteRadix = paddedPreimage[1]
    /\ messageBlocks[2][16].lo % ByteRadix = paddedPreimage[128]
    /\ paddedPreimage[128] # 0

(***************************************************************************)
(* C23.  Digest extraction range: for a buffer of n blocks the eight       *)
(* selections at flat offsets digestIndex .. digestIndex + 7 of the        *)
(* 8 * (n + 1)-word state sequence all succeed iff 0 <= digestIndex        *)
(* <= 8 * n; for any other digestIndex the call fails with the invalid-    *)
(* index error and returns no digest; the selected words are the 8         *)
(* consecutive words starting at digestIndex.                              *)
(***************************************************************************)
C23_DigestExtractionRange ==
    LET n == Len(messageBlocks)
        inRange == 0 <= digestIndex /\ digestIndex <= StateWords * n
    IN  /\ pc \in {"select", "done"}
           => /\ Len(flattenedHashValues) = StateWords * (n + 1)
              /\ Len(digestWords) = IF pc = "done" THEN StateWords ELSE i
              /\ \A k \in 1..Len(digestWords) :
                    /\ digestIndex + k \in 1..Len(flattenedHashValues)
                    /\ digestWords[k] = flattenedHashValues[digestIndex + k]
        /\ pc = "done" => inRange
        /\ (pc = "failed" /\ PastCompression)
           => /\ ~inRange
              /\ error = "index"
              /\ dynamicDigest = << >>
              /\ Outcome = Fail("index")

C23_Witness ==
    /\ fn = "dynamicSHA256"
    /\ pc = "done"
    /\ Len(messageBlocks) = 2
    /\ digestIndex = StateWords * 2
    /\ digestWords = hashValues[3]
    /\ hashValues[3] # hashValues[2]

\* a digest index just outside the range is rejected
C23_WitnessRejected ==
    /\ fn = "dynamicSHA256"
    /\ pc = "failed"
    /\ error = "index"
    /\ Len(messageBlocks) = 2
    /\ digestIndex = StateWords * 2 + 1
    /\ Len(digestWords) = StateWords - 1

(***************************************************************************)
(* C24.  The digest returned by dynamicSHA256 is exactly 32 bytes: for     *)
(* each of the 8 selected words w, in order, the bytes (w >> 24) & 255,    *)
(* (w >> 16) & 255, (w >> 8) & 255, w & 255; the partial-state adapter     *)
(* reads the 8 selected words back from the 32 bytes, and the bytes are    *)
(* the reversed little-endian decomposition of the older variants.         *)
(***************************************************************************)
C24_DigestBytes ==
    pc = "done"
    => /\ Len(digestWords) = StateWords
       /\ Len(dynamicDigest) = StateWords * WordBytes
       /\ \A k \in 0..(StateWords - 1) :
            LET w == digestWords[k + 1]
                littleEndian == wordToBytes(w, 4, FALSE)
            IN  /\ dynamicDigest[4 * k + 1] = w.hi \div ByteRadix
                /\ dynamicDigest[4 * k + 2] = w.hi % ByteRadix
                /\ dynamicDigest[4 * k + 3] = w.lo \div ByteRadix
                /\ dynamicDigest[4 * k + 4] = w.lo % ByteRadix
                /\ littleEndian.ok
                /\ SubSeq(dynamicDigest, 4 * k + 1, 4 * k + 4)
                      = Reverse(littleEndian.val)
       /\ \A k \in 1..Len(dynamicDigest) : dynamicDigest[k] \in 0..255
       /\ bytesToWords(dynamicDigest, WordBytes) = Ok(digestWords)

C24_Witness ==
    /\ pc = "done"
    /\ Len(dynamicDigest) = 32
    /\ dynamicDigest[1] # dynamicDigest[4]
    /\ dynamicDigest[1] = digestWords[1].hi \div ByteRadix
    /\ dynamicDigest[32] = digestWords[8].lo % ByteRadix
    /\ dynamicDigest[32] # dynamicDigest[29]

(***************************************************************************)
(* C25.  Stage ordering in dynamicSHA256: the buffer is split (a malformed *)
(* length rejected) before any compression step; all compression steps     *)
(* complete before the first oblivious selection; no compression step       *)
(* occurs after a selection, and digestIndex decides neither how many       *)
(* compression steps run nor what they compute.                             *)
(***************************************************************************)
C25_StagesInOrder ==
    /\ compressLog # << >>
       => /\ pc \in {"compress", "select", "done", "failed"}
          /\ generateMessageBlocks(paddedPreimage) = Ok(messageBlocks)
    /\ (pc = "failed" /\ messageBlocks = << >>)
       => compressLog = << >> /\ digestWords = << >>
    /\ (pc = "select" \/ digestWords # << >> \/ flattenedHashValues # << >>)
       => /\ compressLog = [k \in 1..Len(messageBlocks) |-> k - 1]
          /\ hashValues = hashRows(messageBlocks, initialHashValue)

C25_StepsInOrder ==
    /\ (compressLog' # compressLog /\ compressLog' # << >>)
       => /\ pc = "compress"
          /\ messageBlocks # << >> /\ messageBlocks' = messageBlocks
          /\ digestWords = << >> /\ digestWords' = << >>
          /\ flattenedHashValues = << >> /\ flattenedHashValues' = << >>
          /\ hashValues'[Len(compressLog') + 1]
                = compress(hashValues[Len(compressLog')],
                           messageBlocks[Len(compressLog')])
    /\ (messageBlocks' # messageBlocks /\ messageBlocks' # << >>)
       => compressLog = << >> /\ compressLog' = << >>
    /\ (digestWords' # digestWords /\ digestWords' # << >>)
       => /\ pc = "select"
          /\ Len(compressLog) = Len(messageBlocks)
          /\ compressLog' = compressLog
          /\ hashValues' = hashValues

C25_StageOrdering == [] C25_StagesInOrder /\ [][C25_StepsInOrder]_vars

C25_Witness ==
    /\ fn = "dynamicSHA256"
    /\ pc = "select"
    /\ i = 1
    /\ digestIndex = 0
    /\ Len(digestWords) = 1
    /\ Len(messageBlocks) = 3
    /\ compressLog = << 0, 1, 2 >>

(***************************************************************************)
(* C26.  Word range is preserved: with every input byte in 0..255 and      *)
(* every word of the state sequence below 2^32, each word built by the     *)
(* splitter and by the adapter is below 2^32, each word a successful       *)
(* wordAtIndex returns is below 2^32 (it is one element of the sequence,   *)
(* not a sum of several), and wordToBytes yields the 4 bytes of the word,  *)
(* the only 4 bytes that compose to it.                                    *)
(***************************************************************************)
C26_WordRange ==
    /\ pc \in {"compress", "select", "done"}
       => /\ \A blk \in 1..Len(messageBlocks) :
                \A j \in 1..Len(messageBlocks[blk]) :
                   IsUInt32(messageBlocks[blk][j])
          /\ \A k \in 1..Len(initialHashValue) : IsUInt32(initialHashValue[k])
    /\ (pc \in {"select", "done"}
          /\ \A k \in 1..Len(flattenedHashValues) :
                IsUInt32(flattenedHashValues[k]))
       => \A k \in 1..Len(digestWords) :
             /\ IsUInt32(digestWords[k])
             /\ wordToBytes(digestWords[k], 4, TRUE).ok
             /\ \A b \in 1..4 :
                   wordToBytes(digestWords[k], 4, TRUE).val[b] \in 0..255
    /\ (IsWordAtIndexCall /\ util.out.ok
          /\ \A k \in 1..Len(util.wordsArray) : IsUInt32(util.wordsArray[k]))
       => /\ IsUInt32(util.out.val)
          /\ util.out.val = util.wordsArray[util.index + 1]
    /\ (IsBytesToWordsCall /\ util.out.ok)
       => \A k \in 1..Len(util.out.val) :
             /\ IsUInt32(util.out.val[k])
             /\ wordToBytes(util.out.val[k], 4, TRUE)
                   = Ok(SubSeq(util.bytes, 4 * k - 3, 4 * k))

C26_Witness ==
    /\ IsWordAtIndexCall
    /\ util.out.ok
    /\ util.wordsArray = << W(65535, 65535), W(65535, 65535), W(32768, 0) >>
    /\ util.index = 1
    /\ util.out.val = W(65535, 65535)

\* the adapter builds the largest word from four bytes 255
C26_WitnessAdapter ==
    /\ IsBytesToWordsCall
    /\ util.out.ok
    /\ Len(util.bytes) = 32
    /\ util.bytes[1] = 255 /\ util.bytes[4] = 255
    /\ util.out.val[1] = W(65535, 65535)

(***************************************************************************)
(* C27.  Filler independence: two buffers of the same length that agree on *)
(* the real standard-padded content (the first 2 * (digestIndex + 8)       *)
(* words) and differ only in later bytes give the same digest whenever     *)
(* dynamicSHA256 succeeds on both with the helper's digestIndex and the    *)
(* same seed; the digest depends on no block at or after the padding       *)
(* start.                                                                  *)
(***************************************************************************)
C27_FillerIndependence ==
    (fn = "dynamicSHA256" /\ pc = "done" /\ scenario.valid
        /\ scenario.tamper.kind = "filler"
        /\ digestIndex = scenario.trueIndex)
    => LET helper == dynamicSHA256Pad(scenario.m, scenario.cap).val.paddedPreimage
           paddingStart == (digestIndex + 8) * 2
           content == SubSeq(paddedPreimage, 1, WordBytes * paddingStart)
           onHelper == dynamicSHA256(helper, digestIndex, initialHashValue)
           onContent == dynamicSHA256(content, digestIndex, initialHashValue)
       IN  /\ Len(helper) = Len(paddedPreimage)
           /\ SubSeq(helper, 1, WordBytes * paddingStart) = content
           /\ onHelper.ok => dynamicDigest = onHelper.val
           /\ onContent.ok /\ dynamicDigest = onContent.val

C27_Witness ==
    /\ fn = "dynamicSHA256"
    /\ pc = "done"
    /\ scenario.tamper.kind = "filler"
    /\ digestIndex = scenario.trueIndex
    /\ digestIndex = StateWords
    /\ Len(paddedPreimage) = 3 * BlockBytes
    /\ paddedPreimage
         # dynamicSHA256Pad(scenario.m, scenario.cap).val.paddedPreimage
    /\ dynamicSHA256(dynamicSHA256Pad(scenario.m, scenario.cap).val.paddedPreimage,
                     digestIndex, initialHashValue).ok
    /\ dynamicDigest # stateToBytes(initialState)

(***************************************************************************)
(* C28.  Index convention agreement: for every standard-padded length L, a *)
(* positive multiple of 64, the digest index of dynamicSHA256Pad,          *)
(* (L - 64) / 8, and of generatePartialSHA256Inputs, L / 8 - 8, are the    *)
(* same non-negative multiple of 8, 8 * (L / 64 - 1), and the padding      *)
(* start derived from it, (digestIndex + 8) * 2, is L / 4, the number of   *)
(* words of the real padded content: the flat position of the first        *)
(* filler word.                                                            *)
(***************************************************************************)
C28_IndexConvention ==
    /\ (IsDynamicSHA256PadCall /\ util.out.ok)
       => LET L == getPaddedLength(Len(util.message))
              d == util.out.val.digestIndex
              buffer == util.out.val.paddedPreimage
              partial == generatePartialSHA256Inputs(util.message,
                                                     util.maxPaddedBytes, 0)
              paddingStart == (d + 8) * 2
          IN  /\ L > 0 /\ L % BlockBytes = 0
              /\ d = StateWords * (L \div BlockBytes - 1)
              /\ d >= 0 /\ d % StateWords = 0
              /\ partial.ok => partial.val.digestIndex = d
              /\ paddingStart = L \div WordBytes
              /\ SubSeq(buffer, 1, WordBytes * paddingStart)
                    = standardPadding(util.message)
              /\ \A k \in (WordBytes * paddingStart + 1)..Len(buffer) :
                    buffer[k] = 0
    /\ (fn \in {"dynamicSHA256", "partialSHA256"} /\ scenario.valid)
       => LET L == getPaddedLength(Len(scenario.m))
                     - BlockBytes * scenario.cut
          IN  /\ L > 0 /\ L % BlockBytes = 0
              /\ scenario.trueIndex = StateWords * (L \div BlockBytes - 1)
              /\ (scenario.trueIndex + 8) * 2 = L \div WordBytes

C28_Witness ==
    /\ IsDynamicSHA256PadCall
    /\ util.out.ok
    /\ Len(util.message) = 56
    /\ util.maxPaddedBytes = 3 * BlockBytes
    /\ util.out.val.digestIndex = StateWords
    /\ generatePartialSHA256Inputs(util.message, util.maxPaddedBytes, 0).ok
    /\ generatePartialSHA256Inputs(util.message, util.maxPaddedBytes,
                                   0).val.digestIndex = StateWords
    /\ util.out.val.paddedPreimage[2 * BlockBytes] # 0

=============================================================================
